---------------------------- MODULE Spec2Model ----------------------------
(***************************************************************************)
(* Model of the currency bot of src/main.py: the users table of the       *)
(* ledger, the FSM storage of the dispatcher (state and data per          *)
(* conversation), and one action per handler.                             *)
(*                                                                         *)
(* The FSM key of the dispatcher is (chat, user).  Each sender writes to  *)
(* the bot in one chat, so a conversation is named by its sender.  The    *)
(* variable chat is the deployment: "group" when the senders share one    *)
(* chat with the bot, so that a message the bot posts there, the inline   *)
(* keyboard of cmd_admin included, is in front of each of them; "private" *)
(* when each sender has a chat of their own.                              *)
(*                                                                         *)
(* Updates of one conversation are handled one at a time.  Under Spec a   *)
(* handler runs from its first line to its last as one action.  Handlers  *)
(* of different conversations may also interleave at their awaits: the    *)
(* only handler that writes to the store more than once is                *)
(* broadcast_finish, which BroadcastRead, BroadcastUpdate and             *)
(* BroadcastDone model statement by statement, and BroadcastStop when it   *)
(* is cut short.  SpecLive is the bot with an administrator who answers    *)
(* the prompts.                                                            *)
(*                                                                         *)
(* Texts are sequences of characters.  Non-ASCII characters and the bot's  *)
(* Russian replies are named in ASCII: "sup2" is the character U+00B2.     *)
(***************************************************************************)
EXTENDS Integers, Sequences, FiniteSets, TLC

VARIABLES
    chat,        \* the deployment: "group" or "private"
    users,       \* the users table: a set of rows
    fsm_state,   \* MemoryStorage: conversation -> state (None is idle)
    fsm_data,    \* MemoryStorage: conversation -> dict of scratch data
    keyboard,    \* whether the admin keyboard has been posted in the chat
    task,        \* conversation -> its broadcast_finish in flight, or NoTask
    out,         \* what the last handler step did: sender, handler, reply, fault
    credited,    \* history: per user id, the sum of the deltas issued to its row
    asked        \* history: per conversation, the credit or debit button pressed
                 \* last and the target id entered last in the flow in progress

vars == <<chat, users, fsm_state, fsm_data, keyboard, task, out, credited, asked>>

---------------------------------------------------------------------------
\* Bounds of the model

\* balances are kept within -MaxBalance .. MaxBalance
MaxBalance == 1

---------------------------------------------------------------------------
\* Configuration and inputs

None == "None"

\* OWNER_ID = int(os.getenv("OWNER_ID", 0))
OWNER_ID == 1

\* the ids of the senders that write to the bot
Senders == {1, 2}

\* message.from_user.username as each sender may present it (None: no username)
UsernamesOf(u) == IF u = OWNER_ID THEN {"boss"} ELSE {None, "neo"}

\* Command("start"), Command("me"), Command("admin")
CMD_START == <<"s", "t", "a", "r", "t">>
CMD_ME == <<"m", "e">>
CMD_ADMIN == <<"a", "d", "m", "i", "n">>

\* message.text of a message without text (a photo, a sticker) is None
NoText == <<None>>

\* the texts the senders write: a number, a number with a leading zero, a
\* negative number, digits that are not all decimal, the three commands
Texts ==
    { NoText, <<"1">>, <<"0", "2">>, <<"-", "1">>, <<"1", "sup2">>,
      <<"/">> \o CMD_START, <<"/">> \o CMD_ME, <<"/">> \o CMD_ADMIN }

\* the texts of an administrator who follows the prompts: the numbers 0 and
\* 1, a negative number, the three commands
LiveTexts ==
    { <<"0">>, <<"1">>, <<"-", "1">>,
      <<"/">> \o CMD_START, <<"/">> \o CMD_ME, <<"/">> \o CMD_ADMIN }

\* callback_data of the three buttons of the keyboard
Buttons == {"admin_add", "admin_remove", "admin_broadcast"}

\* class AdminState
waiting_for_user_id == "AdminState:waiting_for_user_id"
waiting_for_amount == "AdminState:waiting_for_amount"
waiting_for_action == "AdminState:waiting_for_action"
waiting_for_broadcast_amount == "AdminState:waiting_for_broadcast_amount"

---------------------------------------------------------------------------
\* str.isdigit, int, str.split, the Command filter

\* characters c with c.isdigit(): the decimal digits and, e.g., U+00B2
DecimalChars == {"0", "1", "2"}
DigitChars == DecimalChars \cup {"sup2"}

DigitValue(c) == CASE c = "0" -> 0 [] c = "1" -> 1 [] c = "2" -> 2

\* mutant: a leading minus sign let through
isdigit_signed(text) ==
    /\ Len(text) > 0
    /\ \A i \in 1..Len(text) : text[i] \in DigitChars \/ (i = 1 /\ text[i] = "-")

\* mutant: no text taken for digits
isdigit_never(text) == FALSE

\* text.isdigit(): every character is a digit and there is at least one
isdigit(text) == Len(text) > 0 /\ \A i \in 1..Len(text) : text[i] \in DigitChars

\* int(text) raises ValueError on a digit that is not a decimal
IntRaises(text) == \E i \in 1..Len(text) : text[i] \notin DecimalChars

RECURSIVE int(_)
int(text) ==
    IF text = <<>> THEN 0
    ELSE int(SubSeq(text, 1, Len(text) - 1)) * 10 + DigitValue(text[Len(text)])

\* the first whitespace-separated word of a text
RECURSIVE FirstWord(_)
FirstWord(text) ==
    IF text = <<>> \/ Head(text) = " " THEN <<>>
    ELSE <<Head(text)>> \o FirstWord(Tail(text))

\* the command a message carries, as the Command filter reads it
CommandOf(text) ==
    IF text # NoText /\ Len(text) > 0 /\ Head(text) = "/"
    THEN FirstWord(Tail(text)) ELSE <<>>

\* callback.data.split("_")[1]
SplitAction(data) ==
    CASE data = "admin_add" -> "add"
      [] data = "admin_remove" -> "remove"
      [] data = "admin_broadcast" -> "broadcast"

\* message.from_user.username or "NoName"
NameOf(username) == IF username = None THEN "NoName" ELSE username

---------------------------------------------------------------------------
\* The users table

Row(id, name, nick, bal) ==
    [user_id |-> id, username |-> name, nickname |-> nick, balance |-> bal]

Registered(rows, id) == \E r \in rows : r.user_id = id

\* mutant: ON CONFLICT (user_id) DO UPDATE, the row written anew
add_user_upsert(rows, id, name) ==
    { r \in rows : r.user_id # id } \cup {Row(id, name, name, 0)}

\* mutant: a new row written with a balance of 1
add_user_bonus(rows, id, name) ==
    IF Registered(rows, id) THEN rows
    ELSE rows \cup {Row(id, name, name, 1)}

\* INSERT ... VALUES ($1, $2, $3, 0) ON CONFLICT (user_id) DO NOTHING
add_user(rows, id, name) ==
    IF Registered(rows, id) THEN rows
    ELSE rows \cup {Row(id, name, name, 0)}

\* SELECT * FROM users WHERE user_id = $1 (fetchrow: the row or None)
NoRow == [found |-> FALSE]

\* mutant: the WHERE clause left out, some row of the table returned
get_user_any(rows, id) ==
    IF rows # {} THEN CHOOSE r \in rows : \A q \in rows : r.user_id <= q.user_id ELSE NoRow

get_user(rows, id) ==
    IF Registered(rows, id) THEN CHOOSE r \in rows : r.user_id = id ELSE NoRow

\* mutant: SET balance = $1, the old balance dropped
update_balance_set(rows, id, amount) ==
    { IF r.user_id = id THEN [r EXCEPT !.balance = amount] ELSE r : r \in rows }

\* mutant: the WHERE clause left out, every row updated
update_balance_all(rows, id, amount) ==
    { [r EXCEPT !.balance = @ + amount] : r \in rows }

\* mutant: an absent row inserted with the amount as its balance
update_balance_upsert(rows, id, amount) ==
    IF Registered(rows, id)
    THEN { IF r.user_id = id THEN [r EXCEPT !.balance = @ + amount] ELSE r : r \in rows }
    ELSE rows \cup {Row(id, "NoName", "NoName", amount)}

\* UPDATE users SET balance = balance + $1 WHERE user_id = $2
update_balance(rows, id, amount) ==
    { IF r.user_id = id THEN [r EXCEPT !.balance = @ + amount] ELSE r : r \in rows }

\* mutant: every id listed twice
get_all_users_twice(rows) ==
    LET ids == { r.user_id : r \in rows }
    IN  { s \o s : s \in { t \in [1..Cardinality(ids) -> ids] :
                              \A i, j \in DOMAIN t : i # j => t[i] # t[j] } }

\* SELECT user_id FROM users: the ids, in an order the store chooses
get_all_users(rows) ==
    LET ids == { r.user_id : r \in rows }
    IN  { s \in [1..Cardinality(ids) -> ids] : \A i, j \in DOMAIN s : i # j => s[i] # s[j] }

\* the model keeps balances within its bound
InBound(rows) == \A r \in rows : r.balance \in -MaxBalance..MaxBalance

---------------------------------------------------------------------------
\* FSMContext

\* The dict of a conversation holds at most the keys action and user_id; a
\* key it does not hold is written None (action) or NoId (user_id).
NoId == -1

EmptyData == [action |-> None, user_id |-> NoId]

HasKey(data, key) ==
    IF key = "action" THEN data.action # None ELSE data.user_id # NoId

\* mutant: set_data in place of update_data, the other keys dropped
update_data_replace(data, key, value) ==
    IF key = "action" THEN [action |-> value, user_id |-> NoId]
    ELSE [action |-> None, user_id |-> value]

\* state.update_data(key=value): merge into the dict
update_data(data, key, value) ==
    IF key = "action" THEN [data EXCEPT !.action = value]
    ELSE [data EXCEPT !.user_id = value]

\* the senders in the chat the admin writes to the bot in
Members == IF chat = "group" THEN Senders ELSE {OWNER_ID}

\* mutant: the check of the sender left out
is_admin_any(user_id) == TRUE

\* is_admin
is_admin(user_id) == user_id = OWNER_ID

\* the broadcast_finish call a conversation has in flight: where it is (pc),
\* its amount, the list it fetched and how many of its rows it has updated;
\* read is history, the table as it was when the list was fetched
NoTask == [pc |-> "none", amount |-> 0, users |-> <<>>, i |-> 0, read |-> {}]

\* a conversation with no handler in flight takes its next update
Free(c) == task[c] = NoTask

\* What a handler step did: who sent the update, which handler ran, the
\* message it sent (at most one) and whether it ended in an exception.
Out(c, handler, reply, fault) ==
    [sender |-> c, handler |-> handler, reply |-> reply, fault |-> fault]

\* the messages the bot sends: kind names the text, x, y and nick fill it in
Reply(kind, x, y, nick) == [kind |-> kind, x |-> x, y |-> y, nick |-> nick]

NoReply == Reply("none", 0, 0, "")
\* "Privet! Ty v baze. ..."
Welcome == Reply("welcome", 0, 0, "")
\* "Profil: {nickname} / Balans: {balance} monet / ID: {user_id}"
Profile(user) == Reply("profile", user.balance, user.user_id, user.nickname)
\* "Adminka:" with the inline keyboard
Menu == Reply("menu", 0, 0, "")
\* "Vvedi ID yuzera:"
AskUserId == Reply("ask_user_id", 0, 0, "")
\* "Vvedi summu:"
AskAmount == Reply("ask_amount", 0, 0, "")
\* "Nuzhny cifry."
Retry == Reply("retry", 0, 0, "")
\* "Gotovo! Balans izmenen na {final}."
Done(final) == Reply("done", final, 0, "")
\* "Summa dlya razdachi vsem:"
AskBroadcast == Reply("ask_broadcast", 0, 0, "")
\* "Vydano po {amount} monet {len(users)} yuzeram."
BroadcastReport(amount, n) == Reply("broadcast_done", amount, n, "")

\* mutant: the catch-all handler registered before the state handlers
Route_catch_all_first(state, text) ==
    CASE CommandOf(text) = CMD_START -> "cmd_start"
      [] CommandOf(text) = CMD_ME -> "cmd_me"
      [] CommandOf(text) = CMD_ADMIN -> "cmd_admin"
      [] OTHER -> "auto_register"

\* mutant: the state handlers registered before the command handlers
Route_state_first(state, text) ==
    CASE state = waiting_for_user_id -> "process_user_id"
      [] state = waiting_for_amount -> "process_amount"
      [] state = waiting_for_broadcast_amount -> "broadcast_finish"
      [] OTHER ->
           CASE CommandOf(text) = CMD_START -> "cmd_start"
             [] CommandOf(text) = CMD_ME -> "cmd_me"
             [] CommandOf(text) = CMD_ADMIN -> "cmd_admin"
             [] OTHER -> "auto_register"

\* the handler the dispatcher picks for a message: the first registered
\* handler whose filter matches
Route(state, text) ==
    CASE CommandOf(text) = CMD_START -> "cmd_start"
      [] CommandOf(text) = CMD_ME -> "cmd_me"
      [] CommandOf(text) = CMD_ADMIN -> "cmd_admin"
      [] OTHER ->
           CASE state = waiting_for_user_id -> "process_user_id"
             [] state = waiting_for_amount -> "process_amount"
             [] state = waiting_for_broadcast_amount -> "broadcast_finish"
             [] OTHER -> "auto_register"

\* the values of the state of a conversation
FsmStates ==
    { None, waiting_for_user_id, waiting_for_amount, waiting_for_action,
      waiting_for_broadcast_amount }

\* Route, tabulated once over the states and the texts
RouteTable ==
    [state \in FsmStates |-> [text \in Texts \cup LiveTexts |-> Route(state, text)]]

Dispatch(state, text) == RouteTable[state][text]

\* the history of a conversation with no flow in progress
NoAsk == [button |-> None, text |-> NoText]

\* the history of the deltas issued to the row of id, when it has one
Credit(rows, id, amount) ==
    IF id \in Senders /\ Registered(rows, id)
    THEN [credited EXCEPT ![id] = @ + amount] ELSE credited

---------------------------------------------------------------------------
InitIn(deployment) ==
    /\ chat = deployment
    /\ users = {}
    /\ fsm_state = [c \in Senders |-> None]
    /\ fsm_data = [c \in Senders |-> EmptyData]
    /\ keyboard = FALSE
    /\ task = [c \in Senders |-> NoTask]
    /\ out = Out(0, None, NoReply, FALSE)
    /\ credited = [u \in Senders |-> 0]
    /\ asked = [c \in Senders |-> NoAsk]

Init == InitIn("group")

\* a handler that raises: the dispatcher logs the exception, nothing is written
Raise(c, handler) ==
    /\ out' = Out(c, handler, NoReply, TRUE)
    /\ UNCHANGED <<chat, users, fsm_state, fsm_data, keyboard, task, credited, asked>>

\* cmd_start
CmdStart(c, username, text) ==
    /\ Free(c)
    /\ Dispatch(fsm_state[c], text) = "cmd_start"
    /\ users' = add_user(users, c, NameOf(username))
    /\ out' = Out(c, "cmd_start", Welcome, FALSE)
    /\ UNCHANGED <<chat, fsm_state, fsm_data, keyboard, task, credited, asked>>

\* cmd_me
CmdMe(c, username, text) ==
    /\ Free(c)
    /\ Dispatch(fsm_state[c], text) = "cmd_me"
    /\ users' = add_user(users, c, NameOf(username))
    /\ LET user == get_user(users', c)
       IN  out' = Out(c, "cmd_me", IF user # NoRow THEN Profile(user) ELSE NoReply, FALSE)
    /\ UNCHANGED <<chat, fsm_state, fsm_data, keyboard, task, credited, asked>>

\* cmd_admin
CmdAdmin(c, text) ==
    /\ Free(c)
    /\ Dispatch(fsm_state[c], text) = "cmd_admin"
    /\ IF ~is_admin(c)
       THEN /\ out' = Out(c, "cmd_admin", NoReply, FALSE)
            /\ UNCHANGED keyboard
       ELSE /\ out' = Out(c, "cmd_admin", Menu, FALSE)
            /\ keyboard' = TRUE
    /\ UNCHANGED <<chat, users, fsm_state, fsm_data, task, credited, asked>>

\* process_money_action: a press of the credit or the debit button by a
\* sender who has the keyboard in front of them
ProcessMoneyAction(c, data) ==
    /\ Free(c)
    /\ keyboard /\ c \in Members
    /\ data \in {"admin_add", "admin_remove"}
    /\ fsm_data' = [fsm_data EXCEPT ![c] = update_data(@, "action", SplitAction(data))]
    /\ fsm_state' = [fsm_state EXCEPT ![c] = waiting_for_user_id]
    /\ out' = Out(c, "process_money_action", AskUserId, FALSE)
    /\ asked' = [asked EXCEPT ![c].button = data]
    /\ UNCHANGED <<chat, users, keyboard, task, credited>>

\* process_user_id
ProcessUserId(c, text) ==
    /\ Free(c)
    /\ Dispatch(fsm_state[c], text) = "process_user_id"
    /\ IF text = NoText THEN Raise(c, "process_user_id")
       ELSE IF ~isdigit(text)
       THEN /\ out' = Out(c, "process_user_id", Retry, FALSE)
            /\ UNCHANGED <<chat, users, fsm_state, fsm_data, keyboard, task, credited, asked>>
       ELSE IF IntRaises(text) THEN Raise(c, "process_user_id")
       ELSE /\ fsm_data' = [fsm_data EXCEPT ![c] = update_data(@, "user_id", int(text))]
            /\ fsm_state' = [fsm_state EXCEPT ![c] = waiting_for_amount]
            /\ out' = Out(c, "process_user_id", AskAmount, FALSE)
            /\ asked' = [asked EXCEPT ![c].text = text]
            /\ UNCHANGED <<chat, users, keyboard, task, credited>>

\* mutant: the sign of a debit left out
FinalOf_unsigned(action, amount) == amount

\* amount if data['action'] == "add" else -amount
FinalOf(action, amount) == IF action = "add" THEN amount ELSE -amount

\* mutant: set_data({}) in place of clear(), the state left as it is
Clear_data_only(c) ==
    /\ fsm_data' = [fsm_data EXCEPT ![c] = EmptyData]
    /\ UNCHANGED fsm_state

\* state.clear(): the state back to None, the dict emptied
Clear(c) ==
    /\ fsm_state' = [fsm_state EXCEPT ![c] = None]
    /\ fsm_data' = [fsm_data EXCEPT ![c] = EmptyData]

\* process_amount
ProcessAmount(c, text) ==
    /\ Free(c)
    /\ Dispatch(fsm_state[c], text) = "process_amount"
    /\ IF text = NoText THEN Raise(c, "process_amount")
       ELSE IF ~isdigit(text)
       THEN /\ out' = Out(c, "process_amount", Retry, FALSE)
            /\ UNCHANGED <<chat, users, fsm_state, fsm_data, keyboard, task, credited, asked>>
       ELSE IF IntRaises(text) THEN Raise(c, "process_amount")
       ELSE IF ~HasKey(fsm_data[c], "action") \/ ~HasKey(fsm_data[c], "user_id")
       THEN Raise(c, "process_amount")
       ELSE LET data == fsm_data[c]
                final == FinalOf(data.action, int(text))
            IN  /\ users' = update_balance(users, data.user_id, final)
                /\ InBound(users')
                /\ credited' = Credit(users, data.user_id, final)
                /\ out' = Out(c, "process_amount", Done(final), FALSE)
                /\ Clear(c)
                /\ asked' = [asked EXCEPT ![c] = NoAsk]
                /\ UNCHANGED <<chat, keyboard, task>>

\* mutant: the handler behind a filter on the idle state, a press in another
\* state answered by nothing
BroadcastStart_idle_only(c, data) ==
    /\ Free(c)
    /\ keyboard /\ c \in Members
    /\ data = "admin_broadcast"
    /\ fsm_state' = [fsm_state EXCEPT ![c] =
                       IF @ = None THEN waiting_for_broadcast_amount ELSE @]
    /\ out' = Out(c, "broadcast_start",
                  IF fsm_state[c] = None THEN AskBroadcast ELSE NoReply, FALSE)
    /\ UNCHANGED <<chat, users, fsm_data, keyboard, task, credited, asked>>

\* broadcast_start: a press of the broadcast button
BroadcastStart(c, data) ==
    /\ Free(c)
    /\ keyboard /\ c \in Members
    /\ data = "admin_broadcast"
    /\ fsm_state' = [fsm_state EXCEPT ![c] = waiting_for_broadcast_amount]
    /\ out' = Out(c, "broadcast_start", AskBroadcast, FALSE)
    /\ UNCHANGED <<chat, users, fsm_data, keyboard, task, credited, asked>>

\* for u in users: await update_balance(bot.db_pool, u['user_id'], amount)
RECURSIVE UpdateEach(_, _, _)
UpdateEach(rows, list, amount) ==
    IF list = <<>> THEN rows
    ELSE UpdateEach(update_balance(rows, Head(list), amount), Tail(list), amount)

RECURSIVE CreditEach(_, _, _, _)
CreditEach(hist, rows, list, amount) ==
    IF list = <<>> THEN hist
    ELSE CreditEach(IF Registered(rows, Head(list))
                    THEN [hist EXCEPT ![Head(list)] = @ + amount] ELSE hist,
                    rows, Tail(list), amount)

\* broadcast_finish, run from its first line to its last with no handler of
\* another conversation in between
BroadcastFinish(c, text) ==
    /\ Free(c)
    /\ Dispatch(fsm_state[c], text) = "broadcast_finish"
    /\ IF text = NoText THEN Raise(c, "broadcast_finish")
       ELSE IF ~isdigit(text)
       THEN /\ out' = Out(c, "broadcast_finish", NoReply, FALSE)
            /\ UNCHANGED <<chat, users, fsm_state, fsm_data, keyboard, task, credited, asked>>
       ELSE IF IntRaises(text) THEN Raise(c, "broadcast_finish")
       ELSE \E list \in get_all_users(users) :
              /\ users' = UpdateEach(users, list, int(text))
              /\ InBound(users')
              /\ credited' = CreditEach(credited, users, list, int(text))
              /\ out' = Out(c, "broadcast_finish", BroadcastReport(int(text), Len(list)), FALSE)
              /\ Clear(c)
              /\ asked' = [asked EXCEPT ![c] = NoAsk]
              /\ UNCHANGED <<chat, keyboard, task>>

\* broadcast_finish statement by statement, for the interleavings with the
\* handlers of other conversations: first up to and including
\* users = await get_all_users(...)
BroadcastRead(c, text) ==
    /\ Free(c)
    /\ Dispatch(fsm_state[c], text) = "broadcast_finish"
    /\ IF text = NoText THEN Raise(c, "broadcast_finish")
       ELSE IF ~isdigit(text)
       THEN /\ out' = Out(c, "broadcast_finish", NoReply, FALSE)
            /\ UNCHANGED <<chat, users, fsm_state, fsm_data, keyboard, task, credited, asked>>
       ELSE IF IntRaises(text) THEN Raise(c, "broadcast_finish")
       ELSE /\ \E list \in get_all_users(users) :
                 task' = [task EXCEPT ![c] =
                            [pc |-> "loop", amount |-> int(text), users |-> list, i |-> 0,
                             read |-> users]]
            /\ out' = Out(c, "broadcast_finish", NoReply, FALSE)
            /\ UNCHANGED <<chat, users, fsm_state, fsm_data, keyboard, credited, asked>>

\* broadcast_finish: one turn of for u in users: await update_balance(...)
BroadcastUpdate(c) ==
    /\ task[c].pc = "loop"
    /\ task[c].i < Len(task[c].users)
    /\ LET u == task[c].users[task[c].i + 1]
       IN  /\ users' = update_balance(users, u, task[c].amount)
           /\ InBound(users')
           /\ credited' = Credit(users, u, task[c].amount)
    /\ task' = [task EXCEPT ![c].i = @ + 1]
    /\ out' = Out(c, "broadcast_finish", NoReply, FALSE)
    /\ UNCHANGED <<chat, fsm_state, fsm_data, keyboard, asked>>

\* broadcast_finish: after the loop, the report and state.clear()
BroadcastDone(c) ==
    /\ task[c].pc = "loop"
    /\ task[c].i = Len(task[c].users)
    /\ out' = Out(c, "broadcast_finish",
                  BroadcastReport(task[c].amount, Len(task[c].users)), FALSE)
    /\ Clear(c)
    /\ task' = [task EXCEPT ![c] = NoTask]
    /\ asked' = [asked EXCEPT ![c] = NoAsk]
    /\ UNCHANGED <<chat, users, keyboard, credited>>

\* broadcast_finish stopped at an await of its loop, by an exception of the
\* store call or by the end of the process: the dispatcher logs it, neither
\* the report nor state.clear() is reached, the updates made so far stay
BroadcastStop(c) ==
    /\ task[c].pc = "loop"
    /\ task[c].i < Len(task[c].users)
    /\ task' = [task EXCEPT ![c] = NoTask]
    /\ out' = Out(c, "broadcast_finish", NoReply, TRUE)
    /\ UNCHANGED <<chat, users, fsm_state, fsm_data, keyboard, credited, asked>>

\* auto_register: every message no earlier handler took
AutoRegister(c, username, text) ==
    /\ Free(c)
    /\ Dispatch(fsm_state[c], text) = "auto_register"
    /\ users' = add_user(users, c, NameOf(username))
    /\ out' = Out(c, "auto_register", NoReply, FALSE)
    /\ UNCHANGED <<chat, fsm_state, fsm_data, keyboard, task, credited, asked>>

\* the handlers that run from their first line to their last between two
\* awaits of the store at most: all but broadcast_finish
Handle(c, texts, buttons) ==
    \/ \E username \in UsernamesOf(c) : \E text \in texts :
          \/ CmdStart(c, username, text)
          \/ CmdMe(c, username, text)
          \/ AutoRegister(c, username, text)
    \/ \E text \in texts :
          \/ CmdAdmin(c, text)
          \/ ProcessUserId(c, text)
          \/ ProcessAmount(c, text)
    \/ \E data \in buttons :
          \/ ProcessMoneyAction(c, data)
          \/ BroadcastStart(c, data)

Next ==
    \E c \in Senders :
        \/ Handle(c, Texts, Buttons)
        \/ \E text \in Texts : BroadcastFinish(c, text)

Spec == Init /\ [][Next]_vars

\* The same bot with each sender in a chat of their own and broadcast_finish
\* taken statement by statement: between two of its awaits the handlers of
\* the other conversation run.
InitStatements == InitIn("private")

NextStatements ==
    \E c \in Senders :
        \/ Handle(c, Texts, Buttons)
        \/ \E text \in Texts : BroadcastRead(c, text)
        \/ BroadcastUpdate(c)
        \/ BroadcastDone(c)
        \/ BroadcastStop(c)

SpecStatements == InitStatements /\ [][NextStatements]_vars

\* The same bot with an administrator who presses a button only when no
\* prompt is open and who does not leave a prompt without a numeric answer
\* for ever.
Answer(c) ==
    \E text \in {<<"0">>, <<"1">>} :
        \/ ProcessUserId(c, text)
        \/ ProcessAmount(c, text)
        \/ BroadcastFinish(c, text)

NextLive ==
    \E c \in Senders :
        \/ Handle(c, LiveTexts, IF fsm_state[c] = None THEN Buttons ELSE {})
        \/ \E text \in LiveTexts : BroadcastFinish(c, text)

SpecLive ==
    /\ Init
    /\ [][NextLive]_vars
    /\ \A c \in Senders : WF_vars(Answer(c))

---------------------------------------------------------------------------
\* Vocabulary of the properties

\* the three awaiting states the flows use
AwaitingStates == {waiting_for_user_id, waiting_for_amount, waiting_for_broadcast_amount}

\* the texts by kind, and the number a numeric text writes
NumericTexts == {<<"1">>, <<"0", "2">>}
DigitLikeTexts == {<<"1", "sup2">>}
CommandTexts == {<<"/">> \o CMD_START, <<"/">> \o CMD_ME, <<"/">> \o CMD_ADMIN}
PlainTexts == {<<"-", "1">>}
NumberOf(text) == IF text = <<"1">> THEN 1 ELSE 2

\* the step handles the message text of sender c (the handler that out'
\* names is the one handler the step can be of)
Message(c, text) ==
    /\ out'.sender = c
    /\ \/ out'.handler = "cmd_start" /\ \E username \in UsernamesOf(c) : CmdStart(c, username, text)
       \/ out'.handler = "cmd_me" /\ \E username \in UsernamesOf(c) : CmdMe(c, username, text)
       \/ /\ out'.handler = "auto_register"
          /\ \E username \in UsernamesOf(c) : AutoRegister(c, username, text)
       \/ out'.handler = "cmd_admin" /\ CmdAdmin(c, text)
       \/ out'.handler = "process_user_id" /\ ProcessUserId(c, text)
       \/ out'.handler = "process_amount" /\ ProcessAmount(c, text)
       \/ out'.handler = "broadcast_finish" /\ BroadcastFinish(c, text)

\* the handlers behind /admin: the command, the buttons, the awaiting states
AdminHandlers ==
    { "cmd_admin", "process_money_action", "broadcast_start",
      "process_user_id", "process_amount", "broadcast_finish" }

\* the handlers of messages (the other two handle button presses)
MessageHandlers ==
    { "cmd_start", "cmd_me", "cmd_admin", "process_user_id", "process_amount",
      "broadcast_finish", "auto_register" }

\* every row is still there with the balance it had
BalancesKept ==
    \A r \in users : \E q \in users' : q.user_id = r.user_id /\ q.balance = r.balance

\* the conversation of c is where it was, with the data it had
ConversationKept(c) == fsm_state'[c] = fsm_state[c] /\ fsm_data'[c] = fsm_data[c]

RECURSIVE SumBalances(_)
SumBalances(rows) ==
    IF rows = {} THEN 0
    ELSE LET r == CHOOSE q \in rows : TRUE IN r.balance + SumBalances(rows \ {r})

---------------------------------------------------------------------------
\* C1: a sender who is not the administrator never gets a reply from /admin,
\* from the buttons or from the awaiting-state handlers, never leaves idle
\* and never causes a balance to change.
C1_AdminGate ==
    [][\A c \in Senders :
          (~(c = OWNER_ID) /\ out'.sender = c) =>
             /\ out'.handler \in AdminHandlers => out'.reply = NoReply
             /\ fsm_state'[c] = None
             /\ BalancesKept]_vars

\* C2: in waiting_for_amount with data {action, user_id}, a numeric text a
\* changes the balance of the row of user_id, and of no other row, by +a
\* (action add) or -a (action remove), below zero when a exceeds the
\* balance, adds and removes no row, and the reply reports that delta.
C2_Delta(c, text) ==
    IF fsm_data[c].action = "add" THEN NumberOf(text) ELSE -NumberOf(text)

C2_SingleAdjustment ==
    [][\A c \in Senders : \A text \in NumericTexts :
          (/\ out'.sender = c /\ out'.handler = "process_amount"
           /\ fsm_state[c] = waiting_for_amount
           /\ ProcessAmount(c, text)) =>
             /\ fsm_data[c].action \in {"add", "remove"}
             /\ \A r \in users :
                   IF r.user_id = fsm_data[c].user_id
                   THEN [r EXCEPT !.balance = r.balance + C2_Delta(c, text)] \in users'
                   ELSE r \in users'
             /\ Cardinality(users') = Cardinality(users)
             /\ out'.reply = Done(C2_Delta(c, text))
             /\ ~out'.fault]_vars

\* a debit of 1 has just taken a balance of 0 below zero
C2_Reached ==
    /\ out.handler = "process_amount"
    /\ out.sender = OWNER_ID
    /\ out.reply = Done(-1)
    /\ \E r \in users : r.balance = -1

\* C3: a broadcast of the numeric amount a to the n registered users adds a
\* to the balance of every row, so that the sum of the balances grows by
\* a * n, and the reply reports a and n.
C3_Broadcast ==
    [][\A c \in Senders : \A text \in NumericTexts :
          (/\ out'.sender = c /\ out'.handler = "broadcast_finish"
           /\ fsm_state[c] = waiting_for_broadcast_amount
           /\ BroadcastFinish(c, text)) =>
             LET a == NumberOf(text)
                 n == Cardinality(users)
             IN  /\ \A r \in users : [r EXCEPT !.balance = r.balance + a] \in users'
                 /\ Cardinality(users') = n
                 /\ SumBalances(users') = SumBalances(users) + a * n
                 /\ out'.reply = BroadcastReport(a, n)]_vars

\* a broadcast of 2 to two registered users has just been reported
C3_Reached ==
    /\ out.handler = "broadcast_finish"
    /\ out.reply = BroadcastReport(2, 2)
    /\ Cardinality(users) = 2
    /\ \A r \in users : r.balance = 1

\* C4: no adjustment is lost: the balance of a row is the sum of the deltas
\* the handlers of all conversations have issued to it, in whatever order
\* they ran.
C4_NoLostUpdate ==
    \A r \in users : r.balance = credited[r.user_id]

\* the handler of one conversation has just adjusted the row that the other
\* conversation has entered as its target and is about to adjust
C4_Reached ==
    \E c \in Senders : \E r \in users :
        /\ out.sender # c
        /\ out.handler = "process_amount"
        /\ out.reply.kind = "done"
        /\ fsm_state[c] = waiting_for_amount
        /\ fsm_data[c].user_id = r.user_id
        /\ r.balance # 0

\* C5: add_user on an absent id adds one row with balance 0 and the given
\* name as username and nickname; on a present id it changes nothing; the
\* table never holds two rows of one user_id, and no step removes a row or
\* changes its username or nickname.
C5_Unique(rows) == \A r, q \in rows : r.user_id = q.user_id => r = q

C5_EnsureUser ==
    [][/\ users' # users =>
             /\ C5_Unique(users')
             /\ \A r \in users : \E q \in users' :
                   /\ q.user_id = r.user_id
                   /\ q.username = r.username
                   /\ q.nickname = r.nickname
       /\ \A c \in Senders : \A username \in UsernamesOf(c) : \A text \in Texts :
             (/\ out'.sender = c
              /\ \/ out'.handler = "cmd_start" /\ CmdStart(c, username, text)
                 \/ out'.handler = "cmd_me" /\ CmdMe(c, username, text)
                 \/ out'.handler = "auto_register" /\ AutoRegister(c, username, text)) =>
                IF \E r \in users : r.user_id = c
                THEN users' = users
                ELSE users' = users \cup
                       { [user_id |-> c,
                          username |-> IF username = None THEN "NoName" ELSE username,
                          nickname |-> IF username = None THEN "NoName" ELSE username,
                          balance |-> 0] }]_vars

\* /start has just been handled for a sender whose row already carried a
\* balance and a username
C5_Reached ==
    /\ out.handler = "cmd_start"
    /\ out.sender = 2
    /\ \E r \in users : r.user_id = 2 /\ r.balance # 0 /\ r.username = "neo"

\* C6: /admin from a sender who is not the administrator, in any state of
\* the conversation, sends no menu and no other message, does not fail, and
\* leaves the state, the data and the table as they were.
C6_SilentDenial ==
    [][\A c \in Senders : \A text \in Texts :
          (out'.sender = c /\ out'.handler = "cmd_admin" /\ c # OWNER_ID /\ CmdAdmin(c, text)) =>
             /\ out'.reply = NoReply
             /\ ~out'.fault
             /\ ConversationKept(c)
             /\ users' = users
             /\ keyboard' = keyboard]_vars

\* /admin has just been denied to a sender in the middle of a flow
C6_Reached ==
    /\ out.handler = "cmd_admin"
    /\ out.sender # OWNER_ID
    /\ out.sender \in Senders
    /\ fsm_state[out.sender] = waiting_for_amount

\* C7 as stated: in waiting_for_user_id and in waiting_for_amount every
\* non-numeric text is answered with the retry message and changes nothing.
C7_AnyNonNumericRetried ==
    [][\A c \in Senders : \A text \in PlainTexts \cup CommandTexts :
          (/\ out'.sender = c
           /\ fsm_state[c] \in {waiting_for_user_id, waiting_for_amount}
           /\ Message(c, text)) =>
             /\ out'.reply = Retry
             /\ ConversationKept(c)
             /\ users' = users]_vars

\* C7 as amended: in waiting_for_user_id and in waiting_for_amount every
\* non-numeric text that is not one of the commands /start, /me, /admin is
\* answered with the retry message and changes nothing.
C7_NonNumericRetried ==
    [][\A c \in Senders : \A text \in PlainTexts :
          (/\ out'.sender = c
           /\ fsm_state[c] \in {waiting_for_user_id, waiting_for_amount}
           /\ Message(c, text)) =>
             /\ out'.reply = Retry
             /\ ~out'.fault
             /\ ConversationKept(c)
             /\ users' = users]_vars

\* the retry message has just been sent in waiting_for_amount, the data intact
C7_Reached ==
    /\ out.reply = Retry
    /\ out.sender \in Senders
    /\ fsm_state[out.sender] = waiting_for_amount
    /\ fsm_data[out.sender].action = "remove"
    /\ fsm_data[out.sender].user_id = 2

\* C8 as stated: in waiting_for_broadcast_amount a non-numeric message gets
\* no reply, changes no balance, registers nobody and leaves the state.
C8_AnyNonNumericDropped ==
    [][\A c \in Senders : \A text \in PlainTexts \cup CommandTexts \cup {NoText} :
          (/\ out'.sender = c
           /\ fsm_state[c] = waiting_for_broadcast_amount
           /\ Message(c, text)) =>
             /\ out'.reply = NoReply
             /\ users' = users
             /\ ConversationKept(c)]_vars

\* C8 as amended: in waiting_for_broadcast_amount a non-numeric message that
\* is not one of the commands /start, /me, /admin gets no reply, changes no
\* balance, registers nobody and leaves the state; a text that is not a
\* number is dropped by a plain return.
C8_NonNumericDropped ==
    [][\A c \in Senders : \A text \in PlainTexts \cup {NoText} :
          (/\ out'.sender = c
           /\ fsm_state[c] = waiting_for_broadcast_amount
           /\ Message(c, text)) =>
             /\ out'.reply = NoReply
             /\ text \in PlainTexts => ~out'.fault
             /\ users' = users
             /\ ConversationKept(c)]_vars

\* a message has just been dropped in waiting_for_broadcast_amount by a
\* sender who has no row
C8_Reached ==
    /\ out.handler = "broadcast_finish"
    /\ out.reply = NoReply
    /\ ~out.fault
    /\ out.sender \in Senders
    /\ fsm_state[out.sender] = waiting_for_broadcast_amount
    /\ ~Registered(users, out.sender)

\* C9: in the three awaiting states a message that is not a usable number
\* never ends the handler in an exception.
C9_NoFault ==
    out.handler \in {"process_user_id", "process_amount", "broadcast_finish"} => ~out.fault

\* C10: once a message of a sender has been handled, the sender has a row.
C10_RowOnContact ==
    out.handler \in MessageHandlers => Registered(users, out.sender)

\* C11: /start from a sender without a row adds their row with balance 0
\* and sends the welcome message; /me from any sender, with or without a
\* row, is answered with a profile that carries the id of the sender and the
\* balance and the nickname of the row of the sender (balance 0 for a sender
\* who had no row), and /me changes no balance.
C11_StartAndMe ==
    [][\A c \in Senders : \A username \in UsernamesOf(c) : \A text \in CommandTexts :
          /\ (out'.sender = c /\ out'.handler = "cmd_start" /\ CmdStart(c, username, text)) =>
                /\ out'.reply = Welcome
                /\ ~out'.fault
                /\ (~\E r \in users : r.user_id = c) =>
                      /\ \E r \in users' : r.user_id = c /\ r.balance = 0
                      /\ Cardinality(users') = Cardinality(users) + 1
          /\ (out'.sender = c /\ out'.handler = "cmd_me" /\ CmdMe(c, username, text)) =>
                /\ out'.reply.kind = "profile"
                /\ ~out'.fault
                /\ out'.reply.y = c
                /\ \E r \in users' :
                      /\ r.user_id = c
                      /\ out'.reply.x = r.balance
                      /\ out'.reply.nick = r.nickname
                /\ \A r \in users :
                      r.user_id = c => out'.reply.x = r.balance /\ out'.reply.nick = r.nickname
                /\ (~\E r \in users : r.user_id = c) => out'.reply.x = 0
                /\ BalancesKept]_vars

\* /me has just shown sender 2 the balance that an adjustment left on their
\* row, next to the row of another sender with another balance
C11_Reached ==
    /\ out.handler = "cmd_me"
    /\ out.sender = 2
    /\ out.reply = Reply("profile", -1, 2, "neo")
    /\ \E r \in users : r.user_id = 1 /\ r.balance = 1

\* C12: when the amount step is completed with a target id that has no row,
\* no row is added, no balance changes, the handler does not fail, the
\* confirmation is sent and the conversation is idle again.
C12_AbsentTarget ==
    [][\A c \in Senders : \A text \in NumericTexts :
          (/\ out'.sender = c /\ out'.handler = "process_amount"
           /\ fsm_state[c] = waiting_for_amount
           /\ ~\E r \in users : r.user_id = fsm_data[c].user_id
           /\ ProcessAmount(c, text)) =>
             /\ users' = users
             /\ ~out'.fault
             /\ out'.reply.kind = "done"
             /\ out'.reply.x \in {NumberOf(text), -NumberOf(text)}
             /\ fsm_state'[c] = None]_vars

\* the confirmation has just been sent for a target that has no row, while
\* another sender has one
C12_Reached ==
    /\ out.handler = "process_amount"
    /\ out.reply = Done(2)
    /\ out.sender \in Senders
    /\ fsm_state[out.sender] = None
    /\ Cardinality(users) = 1
    /\ \A r \in users : r.balance = 0

\* C13: the state of a conversation changes only along the listed
\* transitions: waiting_for_user_id is entered only from idle by the credit
\* or the debit button, waiting_for_broadcast_amount only from idle by the
\* broadcast button, waiting_for_amount only from waiting_for_user_id by a
\* numeric text, idle only from waiting_for_amount or
\* waiting_for_broadcast_amount by a numeric text; a button pressed in a
\* state that is not idle causes no transition.
C13_ListedTransitions ==
    [][\A c \in Senders :
          /\ fsm_state'[c] # fsm_state[c] =>
                /\ out'.sender = c
                /\ \/ /\ fsm_state'[c] = waiting_for_user_id
                      /\ fsm_state[c] = None
                      /\ out'.handler = "process_money_action"
                   \/ /\ fsm_state'[c] = waiting_for_broadcast_amount
                      /\ fsm_state[c] = None
                      /\ out'.handler = "broadcast_start"
                   \/ /\ fsm_state'[c] = waiting_for_amount
                      /\ fsm_state[c] = waiting_for_user_id
                      /\ out'.handler = "process_user_id"
                   \/ /\ fsm_state'[c] = None
                      /\ \/ fsm_state[c] = waiting_for_amount /\ out'.handler = "process_amount"
                         \/ /\ fsm_state[c] = waiting_for_broadcast_amount
                            /\ out'.handler = "broadcast_finish"
          /\ (/\ out'.sender = c
              /\ out'.handler \in {"process_money_action", "broadcast_start"}
              /\ fsm_state[c] # None) => fsm_state'[c] = fsm_state[c]]_vars

\* C13 as amended: the state of a conversation changes only along these
\* transitions: waiting_for_user_id is entered by the credit or the debit
\* button and waiting_for_broadcast_amount by the broadcast button, from
\* idle and from every awaiting state alike; waiting_for_amount is entered
\* only from waiting_for_user_id by a numeric text, idle only from
\* waiting_for_amount or waiting_for_broadcast_amount by a numeric text; a
\* button pressed in a state that is not idle starts the flow of that
\* button, the data of the abandoned flow kept.
C13_Transitions ==
    [][\A c \in Senders :
          /\ fsm_state'[c] # fsm_state[c] =>
                /\ out'.sender = c
                /\ \/ /\ fsm_state'[c] = waiting_for_user_id
                      /\ out'.handler = "process_money_action"
                   \/ /\ fsm_state'[c] = waiting_for_broadcast_amount
                      /\ out'.handler = "broadcast_start"
                   \/ /\ fsm_state'[c] = waiting_for_amount
                      /\ fsm_state[c] = waiting_for_user_id
                      /\ out'.handler = "process_user_id"
                      /\ out'.reply = AskAmount
                   \/ /\ fsm_state'[c] = None
                      /\ \/ /\ fsm_state[c] = waiting_for_amount
                            /\ out'.handler = "process_amount"
                            /\ out'.reply.kind = "done"
                         \/ /\ fsm_state[c] = waiting_for_broadcast_amount
                            /\ out'.handler = "broadcast_finish"
                            /\ out'.reply.kind = "broadcast_done"
          /\ (out'.sender = c /\ out'.handler = "process_money_action") =>
                /\ fsm_state'[c] = waiting_for_user_id
                /\ fsm_data'[c].user_id = fsm_data[c].user_id
                /\ out'.reply = AskUserId
          /\ (out'.sender = c /\ out'.handler = "broadcast_start") =>
                /\ fsm_state'[c] = waiting_for_broadcast_amount
                /\ fsm_data'[c] = fsm_data[c]
                /\ out'.reply = AskBroadcast]_vars

\* the broadcast button has just been pressed in the middle of a credit
\* flow: the conversation awaits the broadcast amount, the action and the
\* target of the abandoned flow still in its data
C13_Reached ==
    /\ out.handler = "broadcast_start"
    /\ out.sender = OWNER_ID
    /\ fsm_state[OWNER_ID] = waiting_for_broadcast_amount
    /\ fsm_data[OWNER_ID] = [action |-> "add", user_id |-> 2]

\* C14: a numeric amount in waiting_for_amount or in
\* waiting_for_broadcast_amount leaves the conversation idle with an empty
\* dict; from there /admin of the administrator is answered with the menu,
\* and a numeric message sent before a button is pressed goes to
\* auto_register, changes no balance and leaves the conversation idle.
C14_IdleAfterAmount ==
    [][\A c \in Senders : \A text \in NumericTexts :
          /\ (/\ out'.sender = c
              /\ fsm_state[c] \in {waiting_for_amount, waiting_for_broadcast_amount}
              /\ Message(c, text)) =>
                /\ out'.reply.kind \in {"done", "broadcast_done"}
                /\ fsm_state'[c] = None
                /\ fsm_data'[c] = [action |-> None, user_id |-> NoId]
          /\ (out'.sender = c /\ fsm_state[c] = None /\ Message(c, text)) =>
                /\ fsm_data[c] = [action |-> None, user_id |-> NoId]
                /\ out'.handler = "auto_register"
                /\ out'.reply = NoReply
                /\ BalancesKept
                /\ ConversationKept(c)
          /\ (/\ out'.sender = c /\ c = OWNER_ID /\ fsm_state[c] = None
              /\ CmdAdmin(c, <<"/">> \o CMD_ADMIN)) =>
                out'.reply = Menu /\ keyboard']_vars

\* a broadcast has just been completed by the administrator: rows carry its
\* credit and the conversation is idle with an empty dict
C14_Reached ==
    /\ out.sender = OWNER_ID
    /\ out.reply.kind = "broadcast_done"
    /\ out.reply.y = 1
    /\ \E r \in users : r.balance = 1
    /\ fsm_state[OWNER_ID] = None
    /\ fsm_data[OWNER_ID] = [action |-> None, user_id |-> NoId]

\* C15: whenever a conversation is in waiting_for_amount its dict holds an
\* action that is add or remove and an integer user_id, and they are the
\* action of the credit or debit button that conversation pressed last and
\* the target id it entered last, whatever buttons, commands and messages
\* came before, abandoned and restarted flows included.
C15_Scratch ==
    \A c \in Senders :
        fsm_state[c] = waiting_for_amount =>
            /\ fsm_data[c].action \in {"add", "remove"}
            /\ fsm_data[c].user_id \in Nat
            /\ asked[c].button \in {"admin_add", "admin_remove"}
            /\ fsm_data[c].action = "add" <=> asked[c].button = "admin_add"
            /\ asked[c].text \in NumericTexts
            /\ fsm_data[c].user_id = NumberOf(asked[c].text)

\* both conversations are in waiting_for_amount, each with the button and
\* the target of its own
C15_Reached ==
    /\ fsm_state[1] = waiting_for_amount
    /\ fsm_state[2] = waiting_for_amount
    /\ asked[1] = [button |-> "admin_remove", text |-> <<"0", "2">>]
    /\ fsm_data[1] = [action |-> "remove", user_id |-> 2]
    /\ fsm_data[2] = [action |-> "add", user_id |-> 1]

\* C16: the broadcast is a sequence of separately committed updates over
\* the list read at its start.  Each turn of the loop adds the amount to the
\* row of one listed user and to no other row; between two turns the table
\* holds the credit of the users listed so far and not of those listed
\* later, whatever handlers of the other conversation ran in between; a
\* stop in the middle leaves that table as it is; on completion every row
\* that was read carries the amount exactly once, the report counts the rows
\* that were read, and a row added after the read is neither credited nor
\* counted.
C16_Listed(c, id) == \E j \in 1..Len(task[c].users) : task[c].users[j] = id

C16_Partial(c) ==
    /\ Len(task[c].users) = Cardinality(task[c].read)
    /\ \A r \in task[c].read :
          /\ C16_Listed(c, r.user_id)
          /\ LET done == \E j \in 1..task[c].i : task[c].users[j] = r.user_id
             IN  [r EXCEPT !.balance = @ + (IF done THEN task[c].amount ELSE 0)] \in users
    /\ \A r \in users : ~C16_Listed(c, r.user_id) => r.balance = 0

C16_Broadcast ==
    [][\A c \in Senders :
          /\ task'[c].pc = "loop" => (C16_Partial(c))'
          /\ (task[c].pc = "loop" /\ task'[c].pc = "loop" /\ task'[c].i # task[c].i) =>
                /\ task'[c].i = task[c].i + 1
                /\ \A r \in users :
                      IF r.user_id = task[c].users[task'[c].i]
                      THEN [r EXCEPT !.balance = @ + task[c].amount] \in users'
                      ELSE r \in users'
                /\ Cardinality(users') = Cardinality(users)
          /\ (task[c].pc = "loop" /\ task'[c].pc = "none" /\ out'.fault) =>
                /\ users' = users
                /\ out'.reply = NoReply
                /\ ConversationKept(c)
          /\ (task[c].pc = "loop" /\ task'[c].pc = "none" /\ ~out'.fault) =>
                /\ users' = users
                /\ \A r \in task[c].read :
                      [r EXCEPT !.balance = @ + task[c].amount] \in users
                /\ \A r \in users :
                      (~\E q \in task[c].read : q.user_id = r.user_id) => r.balance = 0
                /\ out'.reply = BroadcastReport(task[c].amount, Cardinality(task[c].read))
                /\ fsm_state'[c] = None]_vars

\* in the middle of a broadcast over two rows, one credited and one not yet,
\* /me of the other conversation has just been answered with the balance of
\* its row
C16_Reached ==
    /\ task[OWNER_ID].pc = "loop"
    /\ Len(task[OWNER_ID].users) = 2
    /\ task[OWNER_ID].i = 1
    /\ out.sender = 2
    /\ out.handler = "cmd_me"
    /\ \E r, q \in users : r.balance = 1 /\ q.balance = 0

C18_Frame ==
    [][out'.reply.kind \notin {"done", "broadcast_done"} =>
          /\ \A r \in users : r \in users'
          /\ \A q \in users' :
                q \notin users => q.user_id = out'.sender /\ q.balance = 0
          /\ out'.handler \in { "cmd_admin", "process_money_action", "broadcast_start",
                                "process_user_id", "process_amount", "broadcast_finish" }
                => users' = users]_vars

\* the target-id step has just been taken by a sender who has no row, with
\* a debited row in the table
C18_Reached ==
    /\ out.handler = "process_user_id"
    /\ out.reply = AskAmount
    /\ out.sender \in Senders
    /\ \A r \in users : r.user_id # out.sender
    /\ \E r \in users : r.balance = -1

\* C19: commands take precedence over the awaited state: /start, /me or
\* /admin in an awaiting state is handled by its command handler, not by
\* the handler of the state: there is no retry message, no balance changes,
\* the state and the dict stay as they were, and the next numeric message
\* still goes to the handler of the state.
C19_HandlerOf(text) ==
    CASE text = <<"/", "s", "t", "a", "r", "t">> -> "cmd_start"
      [] text = <<"/", "m", "e">> -> "cmd_me"
      [] text = <<"/", "a", "d", "m", "i", "n">> -> "cmd_admin"

C19_CommandsFirst ==
    [][\A c \in Senders : \A text \in CommandTexts :
          (/\ out'.sender = c
           /\ fsm_state[c] \in AwaitingStates
           /\ Message(c, text)) =>
             /\ out'.handler = C19_HandlerOf(text)
             /\ out'.reply # Retry
             /\ ~out'.fault
             /\ BalancesKept
             /\ ConversationKept(c)
             /\ Dispatch(fsm_state'[c], <<"1">>) \in
                   {"process_user_id", "process_amount", "broadcast_finish"}]_vars

\* /me has just been answered with the profile in the middle of a debit
\* flow, the amount prompt still open
C19_Reached ==
    /\ out.handler = "cmd_me"
    /\ out.sender = OWNER_ID
    /\ out.reply.kind = "profile"
    /\ fsm_state[OWNER_ID] = waiting_for_amount
    /\ fsm_data[OWNER_ID] = [action |-> "remove", user_id |-> 1]

=============================================================================
